---------------------------- MODULE Spec2Model ----------------------------
(***************************************************************************)
(* A model of mitene_download's cache-backed downloader (src/downloader.py)*)
(* : the page iterator (AsyncPageIterator), the page loop and the filter   *)
(* of async_main, the semaphore of gather_with_concurrency, and the        *)
(* resumable, retrying transfer of download_media with its cache writes;   *)
(* and of the page loop and download_media of the program without cache   *)
(* (src/mitene_download.py, the Legacy definitions).                       *)
(*                                                                         *)
(* Bytes.  The asset behind URL u is the byte string <<1, 2, ..., L>> with *)
(* L = assetLen[u]: byte i has the value i, so that a file equals the      *)
(* asset exactly when it holds the right bytes in the right order.  0 is   *)
(* the value of a hole left by a write past the end of a file.             *)
(*                                                                         *)
(* Atomicity.  asyncio runs one coroutine at a time and switches only at   *)
(* an await, so every action below is the code between two awaits.         *)
(***************************************************************************)
EXTENDS Integers, Sequences, FiniteSets, TLC

\* ------------------------------------------------------------------ bounds
\* Distinct asset URLs the remote may list.
NumUrls == 3
\* Longest manifest (media entries over all pages).
MaxMedia == 5
\* Media entries the remote puts on one page.
PageSize == 2
\* Longest asset, in bytes.
MaxLen == 3
\* Network errors the remote may inject over the life of the cache.
MaxFaults == 4
\* Largest scenario.  Transfers interleave, so a scenario of n media entries,
\* b asset bytes and f injected errors weighs 2^(n-1) * (b+1) * (f+1).
MaxWork == 20
\* Runs of async_main over the same cache.db (main's menu loop, restarts).
MaxRuns == 2
\* read(buffer_size) returns between 1 and buffer_size bytes; the model's
\* buffer_size, scaled down from 8192 (src/downloader.py:188).
BufferSize == 2
\* The checkpoint threshold update_interval, scaled down from 1024 * 1024
\* (src/downloader.py:217).
UpdateInterval == 2
\* Page requests the history of mitene_download.py's page loop keeps.
MaxPageReqs == 6
\* iter_chunked(1024) yields between 1 and 1024 bytes; the model's chunk
\* size, scaled down from 1024 (src/mitene_download.py:49).
ChunkSize == 2

\* ------------------------------------------------------- program constants
\* max_retries: int = 4
MaxRetries == 4
\* gather_with_concurrency(4, *download_coroutines)
Concurrency == 4
\* mitene_download.py: max_retries: int = 3
LegacyMaxRetries == 3

Urls == 1..NumUrls

Min(a, b) == IF a < b THEN a ELSE b

Max(a, b) == IF a > b THEN a ELSE b

SeqsUpTo(S, n) == UNION {[1..k -> S] : k \in 0..n}

RECURSIVE SumLens(_, _)
SumLens(S, len) ==
    IF S = {} THEN 0
    ELSE LET u == CHOOSE x \in S : TRUE
         IN len[u] + SumLens(S \ {u}, len)

\* URLs are interchangeable: a manifest names them in order of first use.
Canonical(m) ==
    \A i \in 1..Len(m) :
        \A u \in 1..(m[i] - 1) : \E j \in 1..(i - 1) : m[j] = u

Range(s) == {s[i] : i \in 1..Len(s)}

Weight(n, b, f) == (2 ^ (n - 1)) * (b + 1) * (f + 1)

\* The errors the remote may inject into a scenario of n entries and b bytes.
FaultBudget(n, b) ==
    CHOOSE f \in 0..MaxFaults :
        /\ Weight(n, b, f) <= MaxWork
        /\ \A g \in (f + 1)..MaxFaults : Weight(n, b, g) > MaxWork

VARIABLES
    manifest,    \* the remote: the media of the album, in page order
    assetLen,    \* the remote: the length of each asset
    gated,       \* the remote: page 1 answers with the password wall
    broken,      \* the remote: the page whose body lacks the markers, or 0
    loginAnswer, \* the remote: what it answers to the login request
    password,    \* async_main's password argument: "none" or "given"
    authed,      \* the session: the remote has opened the album to it
    faults,      \* errors the remote may still inject
    cache,       \* cache.db: url -> [status, downloaded_size]
    file,        \* the destination files: url -> [exists, data]
    page,        \* AsyncPageIterator.page
    last_page,   \* AsyncPageIterator.last_page
    pageReqs,    \* history: the page numbers requested in this run
    seen,        \* history: the media async_main's loop body has processed
    mainpc,      \* where async_main is
    tasks,       \* download_coroutines, with each coroutine's locals
    sem,         \* the value of gather_with_concurrency's semaphore
    run,         \* the number of this run of async_main
    cleanStart   \* history: every listed asset was complete when the run began

vars == <<manifest, assetLen, gated, broken, loginAnswer, password, authed,
          faults, cache, file, page, last_page, pageReqs, seen, mainpc, tasks,
          sem, run, cleanStart>>

remoteVars == <<manifest, assetLen, gated, broken, loginAnswer, password>>

iterVars == <<page, last_page, pageReqs, seen>>

\* ----------------------------------------------------------- the remote
\* GET {album}?page={p}: the media of page p, empty past the last one.
PageMedia(p) ==
    SubSeq(manifest, (p - 1) * PageSize + 1, Min(p * PageSize, Len(manifest)))

\* The number of pages with media.
NumPages == (Len(manifest) + PageSize - 1) \div PageSize

\* POST {album}/login answers with the login page again ("refused"), or with
\* another page, the session then being open ("opened") or not ("elsewhere").
LoginAnswers == {"refused", "opened", "elsewhere"}

\* The bytes from..from+n-1 of an asset.
AssetBytes(from, n) == [i \in 1..n |-> from + i - 1]

WholeAsset(u) == AssetBytes(1, assetLen[u])

\* A Range: bytes={offset}- request past the end of the asset is answered
\* 416, which raise_for_status turns into ClientResponseError.
RangeNotSatisfiable(u, offset) == offset > 0 /\ offset >= assetLen[u]

\* ---------------------------------------------------------- cache store
NoRow == [status |-> "none", downloaded_size |-> 0]

\* get_cache_info: the row of url, or (None, None, 0).
get_cache_info_miss(c, u) == NoRow

get_cache_info(c, u) == c[u]

\* update_cache: REPLACE INTO cache ... ; commit.
update_cache(c, u, status, downloaded_size) ==
    [c EXCEPT ![u] = [status |-> status, downloaded_size |-> downloaded_size]]

\* the cache_info[1] == "complete" test of async_main and download_media
IsComplete(c, u) == get_cache_info(c, u).status = "complete"

\* ---------------------------------------------------------------- files
NoFile == [exists |-> FALSE, data |-> <<>>]

\* open(path, "wb") truncates, open(path, "ab") keeps; both create.
OpenFile(f, mode) ==
    IF mode = "wb" THEN [exists |-> TRUE, data |-> <<>>]
    ELSE [exists |-> TRUE, data |-> f.data]

\* f.write(chunk): "ab" writes at the end of the file, "wb" at the handle's
\* own position, leaving a hole when the file is shorter than that.
WriteFile(f, mode, fpos, chunk) ==
    IF mode = "ab" THEN [f EXCEPT !.data = f.data \o chunk]
    ELSE LET n == Len(chunk)
             newLen == Max(Len(f.data), fpos + n)
         IN [f EXCEPT !.data =
                [i \in 1..newLen |->
                    IF i > fpos /\ i <= fpos + n THEN chunk[i - fpos]
                    ELSE IF i <= Len(f.data) THEN f.data[i] ELSE 0]]

\* ---------------------------------------------------------------- tasks
NewTask(u) ==
    [url |-> u, pc |-> "queued", attempt |-> 0, downloaded_size |-> 0,
     bytes_accumulated |-> 0, headers |-> 0, mode |-> "wb", fpos |-> 0,
     pos |-> 1, chunk |-> 0, reqs |-> <<>>, waits |-> <<>>, errors |-> 0,
     resumed |-> 0, outcome |-> "none", opened |-> 0, cause |-> "none"]

\* The coroutines async_main appends for one page: one per media entry whose
\* cache row is not complete.
RECURSIVE Enqueue(_, _)
Enqueue(media, c) ==
    IF media = <<>> THEN <<>>
    ELSE (IF IsComplete(c, Head(media)) THEN <<>> ELSE <<NewTask(Head(media))>>)
         \o Enqueue(Tail(media), c)

\* ----------------------------------------------------------------- Init
\* The album, the remote's behaviour and the password argument.
InitScenario ==
    /\ manifest \in {m \in SeqsUpTo(Urls, MaxMedia) : Canonical(m)}
    /\ assetLen \in {l \in [Urls -> 0..MaxLen] :
                        \A u \in Urls \ Range(manifest) : l[u] = 0}
    /\ Len(manifest) >= 1 =>
           Weight(Len(manifest), SumLens(Urls, assetLen), 0) <= MaxWork
    /\ gated \in BOOLEAN
    /\ password \in (IF gated THEN {"none", "given"} ELSE {"none"})
    /\ broken \in (IF gated THEN {0} ELSE 0..(NumPages + 1))
    /\ loginAnswer \in
           (IF password = "given" THEN LoginAnswers ELSE {"refused"})

\* An empty cache.db, no file, and async_main about to start.
InitProgram ==
    /\ authed = FALSE
    /\ cache = [u \in Urls |-> NoRow]
    /\ file = [u \in Urls |-> NoFile]
    /\ page = 0
    /\ last_page = FALSE
    /\ pageReqs = <<>>
    /\ seen = <<>>
    /\ mainpc = "paging"
    /\ tasks = <<>>
    /\ sem = 0
    /\ run = 1
    /\ cleanStart = FALSE

Init ==
    /\ InitScenario
    /\ faults = IF manifest = <<>> THEN 0
                ELSE FaultBudget(Len(manifest), SumLens(Urls, assetLen))
    /\ InitProgram

\* ------------------------------------------- AsyncPageIterator, async_main
\* The end of `async for`: with no coroutine, "No new downloads found";
\* otherwise gather_with_concurrency(4, ...) creates its semaphore.
LoopEnd ==
    IF tasks = <<>>
    THEN mainpc' = "uptodate" /\ sem' = sem
    ELSE mainpc' = "gather" /\ sem' = Concurrency

\* if not data["mediaFiles"]: self.last_page = True
IsLastPageNever(media) == FALSE

IsLastPage(media) == media = <<>>

\* __anext__ with last_page set: StopAsyncIteration.
IterationEnd ==
    /\ mainpc = "paging"
    /\ last_page
    /\ LoopEnd
    /\ UNCHANGED <<remoteVars, authed, faults, cache, file, iterVars, tasks, run,
                   cleanStart>>

\* __anext__ on a page that is not the password wall, and the loop body of
\* async_main over its media.
FetchPage ==
    /\ mainpc = "paging"
    /\ ~last_page
    /\ ~(page + 1 = 1 /\ gated)
    /\ page + 1 # broken
    /\ page' = page + 1
    /\ pageReqs' = Append(pageReqs, page + 1)
    /\ last_page' = IsLastPage(PageMedia(page + 1))
    /\ seen' = seen \o PageMedia(page + 1)
    /\ tasks' = tasks \o Enqueue(PageMedia(page + 1), cache)
    /\ UNCHANGED <<remoteVars, authed, faults, cache, file, mainpc, sem, run,
                   cleanStart>>

\* __anext__ on the password wall without a password: StopAsyncIteration,
\* which ends `async for` like the end of the album.
PasswordWallStop ==
    /\ mainpc = "paging"
    /\ ~last_page
    /\ page + 1 = 1 /\ gated
    /\ password = "none"
    /\ page' = page + 1
    /\ pageReqs' = Append(pageReqs, page + 1)
    /\ LoopEnd
    /\ UNCHANGED <<remoteVars, authed, faults, cache, file, last_page, seen, tasks,
                   run, cleanStart>>

\* __anext__ on the password wall with a password: the login is posted and
\* the text of the wall, which has no gon.media marker, is then split:
\* [1] raises IndexError, which leaves async_main.
PasswordWallLogin ==
    /\ mainpc = "paging"
    /\ ~last_page
    /\ page + 1 = 1 /\ gated
    /\ password # "none"
    /\ page' = page + 1
    /\ pageReqs' = Append(pageReqs, page + 1)
    /\ authed' = (loginAnswer = "opened")
    /\ mainpc' = "error"
    /\ UNCHANGED <<remoteVars, faults, cache, file, last_page, seen, tasks,
                   sem, run, cleanStart>>

\* The IndexError of split(...)[1] on a body without the gon.media marker
\* leaves __anext__, `async for` and async_main: the coroutines appended so
\* far are never awaited.
OnFormatErrorStop == LoopEnd

OnFormatError == mainpc' = "error" /\ sem' = sem

\* __anext__ on a page whose body lacks the markers.
FormatError ==
    /\ mainpc = "paging"
    /\ ~last_page
    /\ ~(page + 1 = 1 /\ gated)
    /\ page + 1 = broken
    /\ page' = page + 1
    /\ pageReqs' = Append(pageReqs, page + 1)
    /\ OnFormatError
    /\ UNCHANGED <<remoteVars, authed, faults, cache, file, last_page, seen,
                   tasks, run, cleanStart>>

\* ------------------------------------------------ gather_with_concurrency
\* `async with semaphore` admits a coroutine only while the value is positive.
CanAcquireAlways == TRUE

CanAcquire == sem > 0

\* The end of `async with semaphore`, on return and on exception alike: the
\* permit is given back.
ReleaseNone(s) == s

Release(s) == s + 1

\* asyncio.Semaphore wakes its waiters in the order they began to wait, which
\* is the order gather created them in.
FirstQueued(i) ==
    /\ tasks[i].pc = "queued"
    /\ \A j \in 1..(i - 1) : tasks[j].pc # "queued"

Active(t) == t.pc \notin {"queued", "done"}

NumActive == Cardinality({i \in 1..Len(tasks) : Active(tasks[i])})

\* ------------------------------------------------------- download_media
\* headers = {"Range": f"bytes={downloaded_size}-"} if downloaded_size > 0
\* else {}: the offset the request asks for, computed before the retry loop.
RangeOffset(downloaded_size) == downloaded_size

\* mode = "ab" if downloaded_size > 0 else "wb"
FileMode(downloaded_size) == IF downloaded_size > 0 THEN "ab" ELSE "wb"

\* if attempt < max_retries - 1
HasRetryOffByOne(attempt) == attempt < MaxRetries

HasRetry(attempt) == attempt < MaxRetries - 1

\* retry_wait = 2**attempt + random.uniform(0, 1), without the jitter
RetryWait(attempt) == 2 ^ attempt

\* for attempt in range(max_retries)
InRange(attempt) == attempt < MaxRetries

\* if bytes_accumulated >= update_interval
CheckpointDue(bytes_accumulated) == bytes_accumulated >= UpdateInterval

\* The cache row holds a resumable prefix of the asset: status partial,
\* downloaded_size K > 0, and the file is the first K bytes.
ResumablePrefix(u) ==
    LET row == get_cache_info(cache, u)
    IN /\ row.status = "partial"
       /\ row.downloaded_size > 0
       /\ row.downloaded_size <= assetLen[u]
       /\ file[u].exists
       /\ file[u].data = AssetBytes(1, row.downloaded_size)

\* The permit is taken and download_media runs to its first await: the cache
\* row is read; a complete row returns at once (and the permit is given
\* back), any other row leads to the first request.
Admit(i) ==
    /\ mainpc \in {"gather", "raising"}
    /\ FirstQueued(i)
    /\ CanAcquire
    /\ LET u == tasks[i].url
           row == get_cache_info(cache, u)
       IN IF row.status = "complete"
          THEN /\ tasks' = [tasks EXCEPT ![i].pc = "done",
                                         ![i].outcome = "skipped"]
               /\ sem' = sem
          ELSE /\ tasks' = [tasks EXCEPT
                      ![i].pc = "request",
                      ![i].downloaded_size = row.downloaded_size,
                      ![i].headers = RangeOffset(row.downloaded_size),
                      ![i].reqs = <<RangeOffset(row.downloaded_size)>>,
                      ![i].resumed = IF ResumablePrefix(u)
                                     THEN row.downloaded_size ELSE 0]
               /\ sem' = sem - 1
    /\ UNCHANGED <<remoteVars, authed, faults, cache, file, iterVars, mainpc, run,
                   cleanStart>>

\* The response arrives with a 2xx status and the destination is opened.
Respond(i) ==
    /\ mainpc = "gather"
    /\ tasks[i].pc = "request"
    /\ ~RangeNotSatisfiable(tasks[i].url, tasks[i].headers)
    /\ LET u == tasks[i].url
           mode == FileMode(tasks[i].downloaded_size)
       IN /\ file' = [file EXCEPT ![u] = OpenFile(file[u], mode)]
          /\ tasks' = [tasks EXCEPT ![i].pc = "read",
                                    ![i].mode = mode,
                                    ![i].fpos = 0,
                                    ![i].pos = tasks[i].headers + 1,
                                    ![i].bytes_accumulated = 0,
                                    ![i].opened = tasks[i].downloaded_size]
    /\ UNCHANGED <<remoteVars, authed, faults, cache, iterVars, mainpc, sem, run,
                   cleanStart>>

\* chunk = await r.content.read(buffer_size); await f.write(chunk)
WriteChunk(i) ==
    /\ mainpc = "gather"
    /\ tasks[i].pc = "read"
    /\ tasks[i].pos <= assetLen[tasks[i].url]
    /\ \E n \in 1..Min(BufferSize, assetLen[tasks[i].url] - tasks[i].pos + 1) :
         LET u == tasks[i].url
         IN /\ file' = [file EXCEPT ![u] =
                  WriteFile(file[u], tasks[i].mode, tasks[i].fpos,
                            AssetBytes(tasks[i].pos, n))]
            /\ tasks' = [tasks EXCEPT ![i].pc = "account",
                                      ![i].chunk = n,
                                      ![i].fpos = tasks[i].fpos + n,
                                      ![i].pos = tasks[i].pos + n]
    /\ UNCHANGED <<remoteVars, authed, faults, cache, iterVars, mainpc, sem, run,
                   cleanStart>>

\* bytes_accumulated += len(chunk), and the checkpoint when it is due.
Account(i) ==
    /\ mainpc = "gather"
    /\ tasks[i].pc = "account"
    /\ LET u == tasks[i].url
           acc == tasks[i].bytes_accumulated + tasks[i].chunk
           size == tasks[i].downloaded_size + acc
       IN IF CheckpointDue(acc)
          THEN /\ cache' = update_cache(cache, u, "partial", size)
               /\ tasks' = [tasks EXCEPT ![i].pc = "read",
                                         ![i].chunk = 0,
                                         ![i].downloaded_size = size,
                                         ![i].bytes_accumulated = 0]
          ELSE /\ cache' = cache
               /\ tasks' = [tasks EXCEPT ![i].pc = "read",
                                         ![i].chunk = 0,
                                         ![i].bytes_accumulated = acc]
    /\ UNCHANGED <<remoteVars, authed, faults, file, iterVars, mainpc, sem, run,
                   cleanStart>>

\* if bytes_accumulated > 0 (after the loop)
FlushDueNever(bytes_accumulated) == FALSE

FlushDue(bytes_accumulated) == bytes_accumulated > 0

\* read returns b"": the loop breaks and what is left is checkpointed.
Eof(i) ==
    /\ mainpc = "gather"
    /\ tasks[i].pc = "read"
    /\ tasks[i].pos > assetLen[tasks[i].url]
    /\ LET u == tasks[i].url
           acc == tasks[i].bytes_accumulated
           size == tasks[i].downloaded_size + acc
       IN IF FlushDue(acc)
          THEN /\ cache' = update_cache(cache, u, "partial", size)
               /\ tasks' = [tasks EXCEPT ![i].pc = "closing",
                                         ![i].downloaded_size = size]
          ELSE /\ cache' = cache
               /\ tasks' = [tasks EXCEPT ![i].pc = "closing"]
    /\ UNCHANGED <<remoteVars, authed, faults, file, iterVars, mainpc, sem, run,
                   cleanStart>>

\* The file and the response are closed; update_cache(..., "complete",
\* downloaded_size); break; the permit is given back.
Complete(i) ==
    /\ mainpc = "gather"
    /\ tasks[i].pc = "closing"
    /\ cache' = update_cache(cache, tasks[i].url, "complete",
                             tasks[i].downloaded_size)
    /\ tasks' = [tasks EXCEPT ![i].pc = "done", ![i].outcome = "complete"]
    /\ sem' = Release(sem)
    /\ UNCHANGED <<remoteVars, authed, faults, file, iterVars, mainpc, run,
                   cleanStart>>

\* except (aiohttp.ClientPayloadError, aiohttp.ClientError): wait and go
\* round the loop while attempts remain, else print and break.
OnClientErrorReraise(i) ==
    IF HasRetry(tasks[i].attempt)
    THEN /\ tasks' = [tasks EXCEPT
                ![i].pc = "sleep",
                ![i].errors = tasks[i].errors + 1,
                ![i].waits = Append(tasks[i].waits, RetryWait(tasks[i].attempt))]
         /\ sem' = sem
         /\ mainpc' = mainpc
    ELSE /\ tasks' = [tasks EXCEPT ![i].pc = "done",
                                   ![i].errors = tasks[i].errors + 1,
                                   ![i].outcome = "exhausted"]
         /\ sem' = Release(sem)
         /\ mainpc' = "error"

OnClientError(i) ==
    IF HasRetry(tasks[i].attempt)
    THEN /\ tasks' = [tasks EXCEPT
                ![i].pc = "sleep",
                ![i].errors = tasks[i].errors + 1,
                ![i].waits = Append(tasks[i].waits, RetryWait(tasks[i].attempt))]
         /\ sem' = sem
         /\ mainpc' = mainpc
    ELSE /\ tasks' = [tasks EXCEPT ![i].pc = "done",
                                   ![i].errors = tasks[i].errors + 1,
                                   ![i].outcome = "exhausted"]
         /\ sem' = Release(sem)
         /\ mainpc' = mainpc

\* The connection fails while the request or the body is awaited (the end of
\* a body is itself awaited, so a body can fail after its last byte).
Fail(i) ==
    /\ mainpc = "gather"
    /\ tasks[i].pc \in {"request", "read"}
    /\ faults > 0
    /\ faults' = faults - 1
    /\ OnClientError(i)
    /\ UNCHANGED <<remoteVars, authed, cache, file, iterVars, run, cleanStart>>

\* The server answers 416 to a range that starts at or past the end.
RangeError(i) ==
    /\ mainpc = "gather"
    /\ tasks[i].pc = "request"
    /\ RangeNotSatisfiable(tasks[i].url, tasks[i].headers)
    /\ OnClientError(i)
    /\ UNCHANGED <<remoteVars, authed, faults, cache, file, iterVars, run, cleanStart>>

\* asyncio.sleep(retry_wait) is over: the next turn of the loop sends the
\* request again, with the headers built before the loop.
Retry(i) ==
    /\ mainpc = "gather"
    /\ tasks[i].pc = "sleep"
    /\ IF InRange(tasks[i].attempt + 1)
       THEN /\ tasks' = [tasks EXCEPT
                   ![i].pc = "request",
                   ![i].attempt = tasks[i].attempt + 1,
                   ![i].reqs = Append(tasks[i].reqs, tasks[i].headers)]
            /\ sem' = sem
       ELSE /\ tasks' = [tasks EXCEPT ![i].pc = "done",
                                      ![i].outcome = "exhausted"]
            /\ sem' = Release(sem)
    /\ UNCHANGED <<remoteVars, authed, faults, cache, file, iterVars, mainpc, run,
                   cleanStart>>

\* The exceptions the except clause does not name: asyncio.TimeoutError,
\* raised by timeout=1200 while the response or its body is awaited, and
\* OSError, raised by aiofiles.open or f.write.
UncaughtErrors == {"timeout", "oserror"}

\* An exception the except clause does not name leaves download_media and
\* sem_task, which gives the permit back, and is on its way through gather
\* to async_main.
Raise(i) ==
    /\ mainpc = "gather"
    /\ tasks[i].pc \in {"request", "read"}
    /\ faults > 0
    /\ faults' = faults - 1
    /\ \E c \in UncaughtErrors :
          tasks' = [tasks EXCEPT ![i].pc = "done",
                                 ![i].errors = tasks[i].errors + 1,
                                 ![i].outcome = "raised",
                                 ![i].cause = c]
    /\ sem' = Release(sem)
    /\ mainpc' = "raising"
    /\ UNCHANGED <<remoteVars, authed, cache, file, iterVars, run, cleanStart>>

\* The exception of a coroutine reaches async_main through gather and ends
\* the run: the event loop stops with the other coroutines where they are.
\* The waiters the semaphore has woken were made ready before gather was,
\* so they have run by then.
GatherRaise ==
    /\ mainpc = "raising"
    /\ ~(CanAcquire /\ \E j \in 1..Len(tasks) : FirstQueued(j))
    /\ mainpc' = "error"
    /\ UNCHANGED <<remoteVars, authed, faults, cache, file, iterVars, tasks, sem,
                   run, cleanStart>>

\* Every coroutine has returned: gather returns and async_main prints
\* "All downloads completed successfully."
GatherDone ==
    /\ mainpc = "gather"
    /\ \A i \in 1..Len(tasks) : tasks[i].pc = "done"
    /\ mainpc' = "done_ok"
    /\ UNCHANGED <<remoteVars, authed, faults, cache, file, iterVars, tasks, sem, run,
                   cleanStart>>

\* KeyboardInterrupt (or the end of the process) while gather is awaited:
\* every coroutine stops where it is; cache.db and the files stay as they
\* are.  An interruption before gather finds cache and files untouched.
Interrupt ==
    /\ mainpc = "gather"
    /\ mainpc' = "interrupted"
    /\ UNCHANGED <<remoteVars, authed, faults, cache, file, iterVars, tasks, sem,
                   run, cleanStart>>

AllComplete == \A u \in Range(manifest) : cache[u].status = "complete"

\* async_main is run again over the same cache.db and the same files, with a
\* new session and a new iterator, against the unchanged album: from main's
\* menu loop after a run that returned (no coroutine is left then), or in a
\* new process after a run that raised (its coroutines die with the process).
NewRun ==
    /\ mainpc \in {"done_ok", "uptodate", "error", "interrupted"}
    /\ run < MaxRuns
    /\ run' = run + 1
    /\ cleanStart' = AllComplete
    /\ page' = 0
    /\ last_page' = FALSE
    /\ pageReqs' = <<>>
    /\ seen' = <<>>
    /\ tasks' = <<>>
    /\ sem' = 0
    /\ authed' = FALSE
    /\ mainpc' = "paging"
    /\ UNCHANGED <<remoteVars, faults, cache, file>>

Next ==
    \/ IterationEnd
    \/ FetchPage
    \/ PasswordWallStop
    \/ PasswordWallLogin
    \/ FormatError
    \/ \E i \in 1..Len(tasks) : Admit(i)
    \/ \E i \in 1..Len(tasks) : Respond(i)
    \/ \E i \in 1..Len(tasks) : WriteChunk(i)
    \/ \E i \in 1..Len(tasks) : Account(i)
    \/ \E i \in 1..Len(tasks) : Eof(i)
    \/ \E i \in 1..Len(tasks) : Complete(i)
    \/ \E i \in 1..Len(tasks) : Fail(i)
    \/ \E i \in 1..Len(tasks) : RangeError(i)
    \/ \E i \in 1..Len(tasks) : Retry(i)
    \/ \E i \in 1..Len(tasks) : Raise(i)
    \/ GatherRaise
    \/ GatherDone
    \/ NewRun

Spec == Init /\ [][Next]_vars

\* The runs that meet no network error but may be interrupted: the same
\* program against a remote that injects nothing, the interruption weighing
\* on the scenario as one injected error does.
InitCrash ==
    /\ InitScenario
    /\ Len(manifest) >= 1 =>
           Weight(Len(manifest), SumLens(Urls, assetLen), 1) <= MaxWork
    /\ faults = 0
    /\ InitProgram

NextCrash ==
    \/ IterationEnd
    \/ FetchPage
    \/ PasswordWallStop
    \/ PasswordWallLogin
    \/ FormatError
    \/ \E i \in 1..Len(tasks) : Admit(i)
    \/ \E i \in 1..Len(tasks) : Respond(i)
    \/ \E i \in 1..Len(tasks) : WriteChunk(i)
    \/ \E i \in 1..Len(tasks) : Account(i)
    \/ \E i \in 1..Len(tasks) : Eof(i)
    \/ \E i \in 1..Len(tasks) : Complete(i)
    \/ \E i \in 1..Len(tasks) : RangeError(i)
    \/ \E i \in 1..Len(tasks) : Retry(i)
    \/ GatherDone
    \/ Interrupt
    \/ NewRun

SpecCrash == InitCrash /\ [][NextCrash]_vars

\* One run over an album of n + 1 media without bodies, one more than the
\* permits of gather_with_concurrency(n), against a remote that may inject
\* the max_retries errors it takes to use up the attempts of a transfer.
InitPermits ==
    /\ InitScenario
    /\ manifest = [k \in 1..(Concurrency + 1) |-> ((k - 1) % NumUrls) + 1]
    /\ ~gated
    /\ broken = 0
    /\ faults = MaxRetries
    /\ InitProgram

NextPermits ==
    \/ IterationEnd
    \/ FetchPage
    \/ \E i \in 1..Len(tasks) : Admit(i)
    \/ \E i \in 1..Len(tasks) : Respond(i)
    \/ \E i \in 1..Len(tasks) : Eof(i)
    \/ \E i \in 1..Len(tasks) : Complete(i)
    \/ \E i \in 1..Len(tasks) : Fail(i)
    \/ \E i \in 1..Len(tasks) : Retry(i)
    \/ \E i \in 1..Len(tasks) : Raise(i)
    \/ GatherRaise
    \/ GatherDone

\* asyncio.Semaphore wakes a waiter when a permit is given back and the
\* event loop runs it.  Nothing is assumed of the transfers themselves.
SpecPermits ==
    /\ InitPermits
    /\ [][NextPermits]_vars
    /\ WF_vars(\E i \in 1..Len(tasks) : Admit(i))

\* -------------------------------------------------- mitene_download.py
\* The program without cache.db.  Its `page` is the page to request next and
\* starts at 1; its loop asks the remote for the same page again after a
\* login.  pageReqs keeps the first MaxPageReqs requests.
LegacyRecord(p) ==
    IF Len(pageReqs) < MaxPageReqs THEN Append(pageReqs, p) ELSE pageReqs

\* if page == 1 and 'Please enter your password' in response_text: the
\* remote shows the wall to a session it has not opened.
LegacyWall == page = 1 /\ gated /\ ~authed

\* download_coroutines.append(download_media(...)) for every media entry.
LegacyEnqueue(media) == [k \in 1..Len(media) |-> NewTask(media[k])]

InitLegacy ==
    /\ InitScenario
    /\ faults = IF manifest = <<>> THEN 0
                ELSE FaultBudget(Len(manifest), SumLens(Urls, assetLen))
    /\ authed = FALSE
    /\ cache = [u \in Urls |-> NoRow]
    /\ file = [u \in Urls |-> NoFile]
    /\ page = 1
    /\ last_page = FALSE
    /\ pageReqs = <<>>
    /\ seen = <<>>
    /\ mainpc = "paging"
    /\ tasks = <<>>
    /\ sem = 0
    /\ run = 1
    /\ cleanStart = FALSE

\* The wall without --password: the message and sys.exit(1).
LegacyWallExit ==
    /\ mainpc = "paging"
    /\ LegacyWall
    /\ password = "none"
    /\ pageReqs' = LegacyRecord(page)
    /\ mainpc' = "auth_required"
    /\ UNCHANGED <<remoteVars, authed, faults, cache, file, page, last_page,
                   seen, tasks, sem, run, cleanStart>>

\* The wall with --password: the token is read and the login is posted.
LegacyWallLogin ==
    /\ mainpc = "paging"
    /\ LegacyWall
    /\ password # "none"
    /\ pageReqs' = LegacyRecord(page)
    /\ mainpc' = "login"
    /\ UNCHANGED <<remoteVars, authed, faults, cache, file, page, last_page,
                   seen, tasks, sem, run, cleanStart>>

\* The answer to the login: if r.url.path.endswith('/login') the message and
\* sys.exit(1), else `continue`, which requests the same page again.
LegacyLoginAnswer ==
    /\ mainpc = "login"
    /\ IF loginAnswer = "refused"
       THEN mainpc' = "auth_failed" /\ authed' = authed
       ELSE mainpc' = "paging" /\ authed' = (loginAnswer = "opened")
    /\ UNCHANGED <<remoteVars, faults, cache, file, iterVars, tasks, sem, run,
                   cleanStart>>

\* split(...)[1] on a body without the gon.media marker: IndexError.
LegacyFormatError ==
    /\ mainpc = "paging"
    /\ ~LegacyWall
    /\ page = broken
    /\ pageReqs' = LegacyRecord(page)
    /\ mainpc' = "error"
    /\ UNCHANGED <<remoteVars, authed, faults, cache, file, page, last_page,
                   seen, tasks, sem, run, cleanStart>>

\* A page with its markers: page += 1; an empty mediaFiles breaks the loop
\* and gather_with_concurrency follows, else one coroutine per media entry.
LegacyFetchPage ==
    /\ mainpc = "paging"
    /\ ~LegacyWall
    /\ page # broken
    /\ pageReqs' = LegacyRecord(page)
    /\ page' = page + 1
    /\ IF PageMedia(page) = <<>>
       THEN /\ mainpc' = "gather"
            /\ sem' = Concurrency
            /\ UNCHANGED <<seen, tasks>>
       ELSE /\ seen' = seen \o PageMedia(page)
            /\ tasks' = tasks \o LegacyEnqueue(PageMedia(page))
            /\ UNCHANGED <<mainpc, sem>>
    /\ UNCHANGED <<remoteVars, authed, faults, cache, file, last_page, run,
                   cleanStart>>

\* for attempt in range(max_retries), with max_retries = 3
LegacyInRange(attempt) == attempt < LegacyMaxRetries

\* The permit is taken and download_media runs to its first await: if the
\* destination exists it breaks and returns at once (and the permit is given
\* back), else the request is sent.
LegacyAdmit(i) ==
    /\ mainpc = "gather"
    /\ FirstQueued(i)
    /\ CanAcquire
    /\ IF file[tasks[i].url].exists
       THEN /\ tasks' = [tasks EXCEPT ![i].pc = "done",
                                      ![i].outcome = "skipped"]
            /\ sem' = sem
       ELSE /\ tasks' = [tasks EXCEPT ![i].pc = "request",
                                      ![i].reqs = <<0>>]
            /\ sem' = sem - 1
    /\ UNCHANGED <<remoteVars, authed, faults, cache, file, iterVars, mainpc,
                   run, cleanStart>>

\* The response arrives with a 2xx status: open(destination_filename, "wb").
LegacyRespond(i) ==
    /\ mainpc = "gather"
    /\ tasks[i].pc = "request"
    /\ file' = [file EXCEPT ![tasks[i].url] = OpenFile(file[tasks[i].url], "wb")]
    /\ tasks' = [tasks EXCEPT ![i].pc = "read",
                              ![i].mode = "wb",
                              ![i].fpos = 0,
                              ![i].pos = 1]
    /\ UNCHANGED <<remoteVars, authed, faults, cache, iterVars, mainpc, sem,
                   run, cleanStart>>

\* async for chunk in r.content.iter_chunked(1024): f.write(chunk)
LegacyWriteChunk(i) ==
    /\ mainpc = "gather"
    /\ tasks[i].pc = "read"
    /\ tasks[i].pos <= assetLen[tasks[i].url]
    /\ \E n \in 1..Min(ChunkSize, assetLen[tasks[i].url] - tasks[i].pos + 1) :
         /\ file' = [file EXCEPT ![tasks[i].url] =
                WriteFile(file[tasks[i].url], "wb", tasks[i].fpos,
                          AssetBytes(tasks[i].pos, n))]
         /\ tasks' = [tasks EXCEPT ![i].fpos = tasks[i].fpos + n,
                                   ![i].pos = tasks[i].pos + n]
    /\ UNCHANGED <<remoteVars, authed, faults, cache, iterVars, mainpc, sem,
                   run, cleanStart>>

\* The body has ended: the file is closed; break; the permit is given back.
LegacyEof(i) ==
    /\ mainpc = "gather"
    /\ tasks[i].pc = "read"
    /\ tasks[i].pos > assetLen[tasks[i].url]
    /\ tasks' = [tasks EXCEPT ![i].pc = "done", ![i].outcome = "complete"]
    /\ sem' = Release(sem)
    /\ UNCHANGED <<remoteVars, authed, faults, cache, file, iterVars, mainpc,
                   run, cleanStart>>

\* ClientPayloadError while the body is streamed: handle_retry_attempt
\* prints, and the loop goes on with no await.  While attempts remain the
\* next one tests os.path.exists(destination_filename) again: it breaks if
\* the file is there, and sends the request if it is not.  After the last
\* attempt the function returns.
LegacyPayloadError(i) ==
    /\ mainpc = "gather"
    /\ tasks[i].pc = "read"
    /\ faults > 0
    /\ faults' = faults - 1
    /\ IF LegacyInRange(tasks[i].attempt + 1)
       THEN IF file[tasks[i].url].exists
            THEN /\ tasks' = [tasks EXCEPT ![i].pc = "done",
                                           ![i].attempt = tasks[i].attempt + 1,
                                           ![i].errors = tasks[i].errors + 1,
                                           ![i].outcome = "skipped"]
                 /\ sem' = Release(sem)
            ELSE /\ tasks' = [tasks EXCEPT
                        ![i].pc = "request",
                        ![i].attempt = tasks[i].attempt + 1,
                        ![i].errors = tasks[i].errors + 1,
                        ![i].reqs = Append(tasks[i].reqs, 0)]
                 /\ sem' = sem
       ELSE /\ tasks' = [tasks EXCEPT ![i].pc = "done",
                                      ![i].errors = tasks[i].errors + 1,
                                      ![i].outcome = "exhausted"]
            /\ sem' = Release(sem)
    /\ UNCHANGED <<remoteVars, authed, cache, file, iterVars, mainpc, run,
                   cleanStart>>

\* Every coroutine has returned: gather returns and async_main returns
\* comments_saved_counter.
LegacyGatherDone ==
    /\ mainpc = "gather"
    /\ \A i \in 1..Len(tasks) : tasks[i].pc = "done"
    /\ mainpc' = "done_ok"
    /\ UNCHANGED <<remoteVars, authed, faults, cache, file, iterVars, tasks,
                   sem, run, cleanStart>>

NextLegacy ==
    \/ LegacyWallExit
    \/ LegacyWallLogin
    \/ LegacyLoginAnswer
    \/ LegacyFormatError
    \/ LegacyFetchPage
    \/ \E i \in 1..Len(tasks) : LegacyAdmit(i)
    \/ \E i \in 1..Len(tasks) : LegacyRespond(i)
    \/ \E i \in 1..Len(tasks) : LegacyWriteChunk(i)
    \/ \E i \in 1..Len(tasks) : LegacyEof(i)
    \/ \E i \in 1..Len(tasks) : LegacyPayloadError(i)
    \/ LegacyGatherDone

\* The event loop runs the one coroutine there is, and the remote answers
\* every request.
SpecLegacy == InitLegacy /\ [][NextLegacy]_vars /\ WF_vars(NextLegacy)

\* downloader.py under the same scheduling.
FairSpec == Spec /\ WF_vars(Next)

\* ---------------------------------------------------------------- claims
Tasks == 1..Len(tasks)

RunOver == mainpc \in {"done_ok", "uptodate", "error", "interrupted"}

\* The URL of task i is listed once in the manifest, so that i is the only
\* download_media of that URL in the run.
ListedOnce(u) == Cardinality({k \in 1..Len(manifest) : manifest[k] = u}) = 1

\* The asset requests of the run: every entry of every coroutine's reqs.
RECURSIVE CountReqs(_)
CountReqs(ts) == IF ts = <<>> THEN 0 ELSE Len(Head(ts).reqs) + CountReqs(Tail(ts))

AssetRequests == CountReqs(tasks)

\* C1: the coroutines that hold a permit of gather_with_concurrency (admitted
\* and neither returned nor raised) are never more than n = 4.
C1_ConcurrencyBound == NumActive <= Concurrency

\* Four transfers hold the four permits while a fifth waits.
C1_Witness ==
    /\ mainpc = "gather"
    /\ NumActive = Concurrency
    /\ \E i \in Tasks : tasks[i].pc = "queued"

\* C2: a download_media that starts from a row (partial, K > 0) with the file
\* holding the first K bytes of the asset sends its request with offset K,
\* and when it has recorded complete the file is the whole asset.
C2_ResumeCorrect ==
    \A i \in Tasks :
        (tasks[i].resumed > 0 /\ ListedOnce(tasks[i].url)) =>
            /\ tasks[i].reqs[1] = tasks[i].resumed
            /\ tasks[i].outcome = "complete" =>
                   file[tasks[i].url].data = WholeAsset(tasks[i].url)

\* C3: in a run that began with every listed asset complete, no step changes
\* a cache row or a file, and no asset request is sent.
C3_Idempotent ==
    [][cleanStart' => (cache' = cache /\ file' = file /\ AssetRequests' = 0)]_vars

\* A second run over an album of two pages or more, all complete, has ended.
C3_Witness ==
    /\ cleanStart
    /\ run = 2
    /\ RunOver
    /\ seen = manifest
    /\ Len(manifest) > PageSize
    /\ \E u \in Range(manifest) : assetLen[u] > 0

Exhausted(i) == tasks[i].outcome = "exhausted"

\* Every download_media of u in this run met no error.
CleanAsset(u) ==
    /\ \E i \in Tasks : tasks[i].url = u
    /\ \A i \in Tasks : tasks[i].url = u => tasks[i].errors = 0

\* C4: when a transfer has used up its attempts (and no transfer raised), the
\* run is not aborted, and once gather has returned every asset whose
\* transfers met no error is recorded complete.
C4_Isolation ==
    ((\E i \in Tasks : Exhausted(i)) /\ (\A i \in Tasks : tasks[i].outcome # "raised")) =>
        /\ mainpc # "error"
        /\ mainpc = "done_ok" =>
               \A u \in Urls : CleanAsset(u) => cache[u].status = "complete"

\* A has used up its attempts and B, another asset of at least one byte, has
\* been transferred without error in the same run.
C4_Witness ==
    /\ mainpc = "done_ok"
    /\ \E i, j \in Tasks :
          /\ Exhausted(i)
          /\ tasks[j].url # tasks[i].url
          /\ assetLen[tasks[j].url] > 0
          /\ tasks[j].outcome = "complete"
          /\ CleanAsset(tasks[j].url)
          /\ file[tasks[j].url].data = WholeAsset(tasks[j].url)

\* C5: the waits of one download_media are 2^0, 2^1, ... (non-decreasing),
\* its requests are at most max_retries, and after the max_retries-th failure
\* it has ended with no further wait and no further request.
C5_Backoff ==
    \A i \in Tasks :
        LET t == tasks[i]
        IN /\ Len(t.reqs) <= MaxRetries
           /\ \A k \in 1..Len(t.waits) : t.waits[k] = 2 ^ (k - 1)
           /\ \A k \in 1..(Len(t.waits) - 1) : t.waits[k] <= t.waits[k + 1]
           /\ Len(t.waits) <= Len(t.reqs)
           /\ Len(t.waits) <= MaxRetries - 1
           /\ t.errors >= MaxRetries =>
                  /\ t.pc = "done"
                  /\ Len(t.reqs) = MaxRetries
                  /\ Len(t.waits) = MaxRetries - 1

\* A transfer has failed max_retries times, after the waits 1, 2 and 4.
C5_Witness ==
    \E i \in Tasks :
        /\ Exhausted(i)
        /\ tasks[i].errors = MaxRetries
        /\ tasks[i].waits = <<1, 2, 4>>

\* C6: on an album without password wall whose pages 1..k have media and
\* whose page k+1 is empty (every body with its markers), the pages
\* requested are 1, 2, ... in order and none beyond k+1, the media processed
\* are those of the pages fetched, and when the loop has ended they are
\* exactly the media of pages 1..k.
C6_Pagination ==
    (~gated /\ broken = 0) =>
        /\ \A k \in 1..Len(pageReqs) : pageReqs[k] = k
        /\ Len(pageReqs) <= NumPages + 1
        /\ seen = SubSeq(manifest, 1, Min(Len(pageReqs) * PageSize, Len(manifest)))
        /\ mainpc # "paging" => (Len(pageReqs) = NumPages + 1 /\ seen = manifest)

\* The loop over an album of at least two pages of media has ended.
C6_Witness ==
    /\ ~gated
    /\ broken = 0
    /\ mainpc # "paging"
    /\ NumPages >= 2
    /\ pageReqs = [k \in 1..(NumPages + 1) |-> k]
    /\ seen = manifest

\* C7: on a password-gated album with no password, the run yields no media,
\* sends no asset request, and ends in an outcome that is not the one of a
\* run that found nothing new to download.
C7_AuthRequired ==
    (gated /\ password = "none" /\ mainpc # "paging") =>
        /\ seen = <<>>
        /\ AssetRequests = 0
        /\ mainpc \notin {"uptodate", "done_ok"}

\* C8: a complete row means the file exists and has downloaded_size bytes
\* (stated for the assets listed once, whose file has one writer per run).
C8_CompleteMatchesFile ==
    \A u \in Urls :
        (ListedOnce(u) /\ cache[u].status = "complete") =>
            /\ file[u].exists
            /\ Len(file[u].data) = cache[u].downloaded_size

\* C9: a write to the row of a URL whose status is not complete never
\* lowers its downloaded_size.
C9_MonotoneCheckpoints ==
    [][\A u \in Urls :
          cache[u].status # "complete" =>
              cache'[u].downloaded_size >= cache[u].downloaded_size]_vars

\* C10: a download_media that has used up its attempts has left the row of
\* its URL with status failed, and has not raised.
C10_ExhaustedMarkedFailed ==
    \A i \in Tasks :
        Exhausted(i) =>
            /\ cache[tasks[i].url].status = "failed"
            /\ mainpc # "error" \/ \E j \in Tasks : tasks[j].outcome = "raised"

\* C11: a request of download_media that timed out is followed by the backoff
\* wait and a retry: the transfer has not raised and the run has not ended
\* with an error.
C11_TimeoutTransient ==
    \A i \in Tasks :
        tasks[i].cause = "timeout" =>
            /\ tasks[i].outcome # "raised"
            /\ mainpc # "error"

\* C12: a local I/O error in one transfer does not pass gather: the run has
\* not ended with an error, and when the run is over every sibling transfer
\* has run to its end.
C12_LocalIOIsolated ==
    \A i \in Tasks :
        tasks[i].cause = "oserror" =>
            /\ mainpc # "error"
            /\ RunOver => \A j \in Tasks \ {i} : tasks[j].pc = "done"

\* C13: once the login has been posted for the password wall of page 1 and
\* the remote has opened the session, the body of the wall is not given to
\* the extraction (whose IndexError ends the run), and when the loop has
\* ended page 1 has been requested again and the media of the album yielded.
C13_LoginRerequest ==
    (gated /\ password # "none" /\ loginAnswer = "opened" /\ pageReqs # <<>>) =>
        /\ mainpc # "error"
        /\ mainpc # "paging" =>
               /\ Len(pageReqs) >= 2
               /\ pageReqs[2] = 1
               /\ seen = manifest

\* The page whose body lacks the markers has been requested.
FormatErrorMet ==
    /\ broken > 0
    /\ \E k \in 1..Len(pageReqs) : pageReqs[k] = broken

\* C14: once a page whose body lacks the markers has been requested, the run
\* has ended with an error, that page is the last one requested, and no
\* coroutine has started: not one asset request has been sent.
C14_FormatErrorFatal ==
    FormatErrorMet =>
        /\ mainpc = "error"
        /\ pageReqs[Len(pageReqs)] = broken
        /\ Len(pageReqs) = broken
        /\ AssetRequests = 0
        /\ \A i \in Tasks : tasks[i].pc = "queued"

\* The second page or a later one lacks the markers, after pages whose media
\* have been given their coroutines.
C14_Witness ==
    /\ FormatErrorMet
    /\ broken >= 2
    /\ mainpc = "error"
    /\ tasks # <<>>
    /\ \E u \in Range(seen) : assetLen[u] > 0

\* C15: a run in which a transfer has used up its attempts does not end with
\* the report that all downloads completed.
C15_FailuresReported ==
    mainpc = "done_ok" => \A i \in Tasks : ~Exhausted(i)

\* C16: every request of download_media, the first and every retry, asks for
\* the bytes from the downloaded_size counted so far (offset 0: no Range).
C16_RequestOffset ==
    \A i \in Tasks :
        tasks[i].pc = "request" =>
            tasks[i].reqs[Len(tasks[i].reqs)] = tasks[i].downloaded_size

\* C17: after a run interrupted during a transfer, the transfer of the next
\* run that resumes from the row left (partial, K > 0) and completes without
\* error leaves the file equal to the asset.
C17_CrashResume ==
    \A i \in Tasks :
        (/\ run > 1
         /\ ListedOnce(tasks[i].url)
         /\ tasks[i].reqs # <<>>
         /\ tasks[i].reqs[1] > 0
         /\ tasks[i].errors = 0
         /\ tasks[i].outcome = "complete") =>
            file[tasks[i].url].data = WholeAsset(tasks[i].url)

\* C18: two download_media of the same URL are never in flight together,
\* and no step changes a row whose status is complete.
C18_OneTransferPerUrl ==
    /\ [](\A i, j \in Tasks :
             (i # j /\ tasks[i].url = tasks[j].url) =>
                 ~(Active(tasks[i]) /\ Active(tasks[j])))
    /\ [][\A u \in Urls :
             cache[u].status = "complete" => cache'[u] = cache[u]]_vars

\* The bytes attempt i has written to the file and not yet counted in
\* downloaded_size.
Unaccounted(i) ==
    tasks[i].fpos - (tasks[i].downloaded_size - tasks[i].opened)

\* C19: while an attempt has the file open, the bytes it has written and
\* not yet counted are fewer than update_interval + buffer_size; they are
\* none once the attempt has read the end of the body; and the row of a URL
\* listed once holds the downloaded_size counted.
C19_UnaccountedBound ==
    \A i \in Tasks :
        tasks[i].pc \in {"read", "account", "closing"} =>
            /\ Unaccounted(i) >= 0
            /\ Unaccounted(i) < UpdateInterval + BufferSize
            /\ tasks[i].pc = "closing" => Unaccounted(i) = 0
            /\ ListedOnce(tasks[i].url) =>
                   cache[tasks[i].url].downloaded_size = tasks[i].downloaded_size

\* An attempt holds the most bytes it can before a checkpoint, and another
\* has read the end of a body whose last bytes were below the threshold.
C19_Witness ==
    /\ \E i \in Tasks :
          /\ tasks[i].pc = "account"
          /\ Unaccounted(i) = UpdateInterval + BufferSize - 1
    /\ \E i \in Tasks :
          /\ tasks[i].pc = "closing"
          /\ tasks[i].bytes_accumulated > 0
          /\ tasks[i].bytes_accumulated < UpdateInterval

\* The page loop has ended: by the empty page, by an exit or by an error.
PagingOver == mainpc \notin {"paging", "login"}

\* C20: the page loop ends after finitely many requests, whatever the remote
\* answers to page 1 and to the login (mitene_download.py's loop).
C20_PageLoopTerminates == <>PagingOver

\* gather_with_concurrency has been called in this run.
GatherCalled ==
    \/ mainpc \in {"gather", "raising", "done_ok"}
    \/ mainpc = "error" /\ \E i \in Tasks : tasks[i].outcome = "raised"

\* The permits not free are those of the transfers in flight.
PermitsAccounted == GatherCalled => sem + NumActive = Concurrency

\* C21: every transfer that ends, by success, by exhaustion or by an
\* exception, gives its permit back (the permits not free are always those
\* of the transfers in flight, so all n are free once all have ended), and
\* provided each admitted transfer eventually ends, every transfer queued
\* in gather_with_concurrency is eventually admitted.
C21_PermitRelease ==
    /\ []PermitsAccounted
    /\ <>[](NumActive = 0) =>
           <>[](GatherCalled => \A i \in Tasks : tasks[i].pc # "queued")

\* Four transfers took the four permits, one of them has used up its
\* attempts, and the permit it gave back is free for the fifth, which waits.
C21_Witness ==
    /\ mainpc = "gather"
    /\ sem = 1
    /\ NumActive = Concurrency - 1
    /\ \E i \in Tasks : Exhausted(i)
    /\ \E j \in Tasks : tasks[j].pc = "queued"

\* C22: in mitene_download.py's download_media, after an attempt has failed
\* with ClientPayloadError while the body was streamed, with attempts left,
\* the request has been sent again (one request more than errors), and the
\* function has not returned leaving a file that is not the whole asset
\* (stated for the assets listed once, whose file has one writer).
C22_LegacyRetry ==
    \A i \in Tasks :
        ListedOnce(tasks[i].url) =>
            /\ (tasks[i].errors > 0 /\ tasks[i].errors < LegacyMaxRetries) =>
                   Len(tasks[i].reqs) = tasks[i].errors + 1
            /\ (tasks[i].pc = "done" /\ file[tasks[i].url].exists) =>
                   file[tasks[i].url].data = WholeAsset(tasks[i].url)

=============================================================================
